---------------------------- MODULE Spec2Model ----------------------------
(***************************************************************************)
(* A model of bundle_osx.py (conda-bundler): the pipeline that builds a    *)
(* macOS .app bundle from a conda environment.                             *)
(*                                                                         *)
(* The program is sequential; its state is the filesystem, the process     *)
(* environment and the module global CONDA_BASE.  The model is split into  *)
(* specifications that share the variables below, each one exercising a    *)
(* group of functions of the source:                                       *)
(*   SpecPath  safe_conda_base                                             *)
(*   SpecName  the app-name derivations of create_exe / create_info_plist  *)
(*   Spec      create_app_folder, install_conda, create_env, conda_run     *)
(*   SpecCopy  bundle_conda_env                                            *)
(*   SpecMain  sign_app, make_dmg, the tail of main and --make-dmg         *)
(*   SpecClean the argument parser and the --clean action                  *)
(* A variable that a specification does not use keeps its idle value.      *)
(***************************************************************************)
EXTENDS Integers, Sequences, FiniteSets, TLC

VARIABLES
    \* ---- SpecPath
    buildpath,      \* the buildpath argument, a sequence of path components
    cwd,            \* the process's working directory (absolute path)
    home,           \* the home directory "~" expands to (absolute path)
    condaBase,      \* what safe_conda_base returned (Nothing before the call)
    \* ---- SpecName
    name,           \* the application name, a sequence of characters
    exeName,        \* create_exe's app_name (Nothing before the call)
    pyscript,       \* create_exe's default entry point, relative to Contents
    plistName,      \* create_info_plist's default app_name (Nothing before the call)
    \* ---- Spec: the arguments of main and the process environment
    appName,        \* main's name argument
    noconfirm,      \* main's noconfirm argument
    pip_install,    \* main's pip_install argument, a sequence of packages
    inhPATH,        \* os.environ's PATH (Nothing when unset), a sequence of entries
    inhPYTHONPATH,  \* os.environ's PYTHONPATH (Nothing when unset)
    \* ---- Spec: control
    pc,             \* the step of main that runs next
    run,            \* the number of the current invocation of the tool
    \* ---- Spec: the filesystem
    bundle,         \* <distpath>/<name>.app: Nothing when absent, else the set of
                    \* the paths below it
    condaExists,    \* whether the runtime installation directory exists
    envDir,         \* <conda base>/envs/<name>: Nothing when absent, else its content
    \* ---- Spec: what the steps did (read by the properties only)
    bundleBefore,   \* bundle when the last create_app_folder was entered
    appOutcomes,    \* per invocation: "created", "overwritten" or "kept"
    appPrompts,     \* input() calls of the last create_app_folder
    appAnswer,      \* the answer its prompt ended with (Nothing: no prompt)
    appRet,         \* what the last create_app_folder returned
    envBefore,      \* envDir when the last create_env was entered
    envAfterConfirm, \* envDir after create_env's delete-and-recreate block
    envDeleted,     \* whether the last create_env removed the existing env
    envPrompts,     \* input() calls of the last create_env
    envAnswer,      \* the answer its prompt ended with (Nothing: no prompt)
    envRet,         \* what the last create_env returned (Nothing: not returned)
    cmds,           \* the commands conda_run ran in this invocation, in order
    \* ---- SpecCopy
    env_tree,       \* the sub-environment directory env_dir, two levels deep
    resources,      \* <app_path>/Contents/Resources, two levels deep
    include,        \* bundle_conda_env's include argument
    exclude,        \* bundle_conda_env's exclude argument, a sequence of patterns
    copied,         \* resources when the last include pass ended
    copyPc,         \* "idle", "ready", or "crashed" after an uncaught exception
    copyRuns,       \* the calls of bundle_conda_env that have returned
    \* ---- SpecMain
    mode,           \* "main": the pipeline; "make_dmg": the --make-dmg action
    cert_name,      \* main's cert_name argument
    nodmg,          \* main's nodmg argument
    mpc,            \* the step that runs next
    distBundle,     \* whether the bundle exists at app_path
    staging,        \* <distpath>/dmg: Nothing when absent, else what it holds
    dmgFile,        \* whether the archive exists at dmg_file
    staleApp,       \* whether staging held a bundle when the process started
    signRC,         \* codesign's exit status (Nothing: not run)
    hdiutilRC,      \* hdiutil's exit status (Nothing: not run)
    dmgCalled,      \* whether make_dmg was called
    dmgRet,         \* what make_dmg returned (Nothing: it has not returned)
    logs,           \* the messages logged
    exitCode,       \* the process's exit code (Nothing: still running)
    \* ---- SpecClean
    argv,           \* the command line, a sequence of arguments
    argi,           \* the position in argv that parse_args reads next
    nsBuildpath,    \* args.buildpath of the namespace being filled
    nsDistpath,     \* args.distpath of the namespace being filled
    nsName,         \* whether the positional name has been read
    dirs,           \* the directories that exist, as absolute paths
    cliPc           \* "parse", then "cleaned", "pipeline" or "usage"

pathVars == <<buildpath, cwd, home, condaBase>>
nameVars == <<name, exeName, pyscript, plistName>>
argVars == <<appName, noconfirm, pip_install, inhPATH, inhPYTHONPATH>>
appVars == <<bundle, bundleBefore, appOutcomes, appPrompts, appAnswer, appRet>>
envVars == <<condaExists, envDir, envBefore, envAfterConfirm, envDeleted,
             envPrompts, envAnswer, envRet, cmds>>
buildVars == <<argVars, pc, run, appVars, envVars>>
copyVars == <<env_tree, resources, include, exclude, copied, copyPc, copyRuns>>
mainVars == <<mode, cert_name, nodmg, mpc, distBundle, staging, dmgFile, staleApp,
              signRC, hdiutilRC, dmgCalled, dmgRet, logs, exitCode>>
cleanVars == <<argv, argi, nsBuildpath, nsDistpath, nsName, dirs, cliPc>>

\* An optional value: Nothing, or Some(v).
Nothing == <<>>
Some(v) == <<v>>
IsSome(o) == o # <<>>
Val(o) == o[1]

(***************************************************************************)
(* Paths.  A path is a sequence of components; an absolute path starts     *)
(* with the component "/", a home-relative one with "~".  Text(c) is the   *)
(* component as characters, so that a test on the path's characters is a   *)
(* test the model computes.                                                *)
(***************************************************************************)
Text(c) ==
    CASE c = "build"      -> <<"b", "u", "i", "l", "d">>
      [] c = "my build"   -> <<"m", "y", " ", "b", "u", "i", "l", "d">>
      [] c = "work"       -> <<"w", "o", "r", "k">>
      [] c = "My Projects" -> <<"M", "y", " ", "P", "r", "o", "j", "e", "c", "t", "s">>
      [] c = "Users"      -> <<"U", "s", "e", "r", "s">>
      [] c = "me"         -> <<"m", "e">>
      [] c = "John Smith" -> <<"J", "o", "h", "n", " ", "S", "m", "i", "t", "h">>
      [] c = "conda"      -> <<"c", "o", "n", "d", "a">>
      [] c = "_temp_conda" -> <<"_", "t", "e", "m", "p", "_", "c", "o", "n", "d", "a">>
      [] c = ".."         -> <<".", ".">>
      [] c = "/"          -> <<>>
      [] c = "~"          -> <<"~">>
      [] c = "bin"        -> <<"b", "i", "n">>
      [] c = "lib"        -> <<"l", "i", "b">>
      [] c = "qt"         -> <<"q", "t">>
      [] c = "py"         -> <<"p", "y">>
      [] c = "*"          -> <<"*">>
      [] c = "q*"         -> <<"q", "*">>
      [] c = "zzz"        -> <<"z", "z", "z">>
      [] OTHER            -> <<"?">>

\* `" " in s` for the string a path stands for (the separator is "/").
HasSpace(p) == \E i \in DOMAIN p : \E j \in DOMAIN Text(p[i]) : Text(p[i])[j] = " "

IsAbs(p) == Len(p) > 0 /\ p[1] = "/"

\* os.path.expanduser: a leading "~" component becomes the home directory.
ExpandUser(p, h) == IF Len(p) > 0 /\ p[1] = "~" THEN h \o Tail(p) ELSE p

\* os.path.normpath on an absolute path: ".." drops the component before it
\* and is itself dropped at the root.
RECURSIVE NormInto(_, _)
NormInto(acc, rest) ==
    IF rest = <<>> THEN acc
    ELSE IF Head(rest) = ".."
         THEN NormInto(IF Len(acc) > 1 THEN SubSeq(acc, 1, Len(acc) - 1) ELSE acc,
                       Tail(rest))
         ELSE NormInto(Append(acc, Head(rest)), Tail(rest))

\* os.path.abspath: join the working directory in front of a relative path,
\* then normalise.
AbsPath(p, d) == NormInto(<<"/">>, Tail(IF IsAbs(p) THEN p ELSE d \o p))

Join(p, c) == Append(p, c)

\* safe_conda_base, lines 34-45, with its two results named.
CondaDir(bp, d, h) == Join(AbsPath(ExpandUser(bp, h), d), "conda")
AltDir(d, h) == AbsPath(ExpandUser(<<"~", "_temp_conda">>, h), d)

safe_conda_base(bp, d, h) ==
    IF ~HasSpace(CondaDir(bp, d, h)) THEN CondaDir(bp, d, h) ELSE AltDir(d, h)

\* ---- bounds and input sets of SpecPath
MaxBuildLen == 2

BuildComps == {"build", "my build", ".."}
PathPrefixes == {<<>>, <<"/">>, <<"~">>}
Homes == {<<"/", "Users", "me">>, <<"/", "Users", "John Smith">>}
Cwds == {<<"/", "work">>, <<"/", "My Projects">>}

SeqsUpTo(S, n) == UNION {[1..k -> S] : k \in 1..n}
BuildPaths == {pre \o s : pre \in PathPrefixes, s \in SeqsUpTo(BuildComps, MaxBuildLen)}

PathIdle ==
    /\ buildpath = <<>>
    /\ cwd = <<"/">>
    /\ home = <<"/">>
    /\ condaBase = Nothing

InitPath ==
    /\ buildpath \in BuildPaths
    /\ cwd \in Cwds
    /\ home \in Homes
    /\ condaBase = Nothing

\* A call of safe_conda_base(buildpath), as install_conda (line 50) and
\* CleanAction (line 515) make it.
SafeCondaBase ==
    /\ condaBase = Nothing
    /\ condaBase' = Some(safe_conda_base(buildpath, cwd, home))
    /\ UNCHANGED <<buildpath, cwd, home>>
    /\ UNCHANGED <<nameVars, buildVars, copyVars, mainVars, cleanVars>>

(***************************************************************************)
(* App names.  A name is a sequence of characters; the bundle directory of *)
(* name N is <distpath>/N.app (create_app_folder, line 240).               *)
(***************************************************************************)
DotApp == <<".", "a", "p", "p">>
CharsOf(s) == {s[i] : i \in DOMAIN s}

\* str.lstrip(chars) / str.rstrip(chars) / str.strip(chars): drop, from that
\* end, every character that is a member of chars.
RECURSIVE LStrip(_, _)
LStrip(s, chars) ==
    IF s # <<>> /\ Head(s) \in chars THEN LStrip(Tail(s), chars) ELSE s

RECURSIVE RStrip(_, _)
RStrip(s, chars) ==
    IF s # <<>> /\ s[Len(s)] \in chars
    THEN RStrip(SubSeq(s, 1, Len(s) - 1), chars)
    ELSE s

Strip(s, chars) == LStrip(RStrip(s, chars), chars)

\* path.basename(app_path) for the bundle create_app_folder makes for n.
AppBasename(n) == n \o DotApp

\* create_exe, line 357.
ExeAppName(n) == Strip(AppBasename(n), CharsOf(DotApp))
\* create_info_plist, line 311 (no app_name given).
PlistAppName(n) == RStrip(AppBasename(n), CharsOf(DotApp))

\* ---- bounds and input sets of SpecName
MaxNameLen == 3
NameChars == {"a", "p", "x", "z"}
Names == SeqsUpTo(NameChars, MaxNameLen)

NameIdle ==
    /\ name = <<>>
    /\ exeName = Nothing
    /\ pyscript = Nothing
    /\ plistName = Nothing

InitName ==
    /\ name \in Names
    /\ exeName = Nothing
    /\ pyscript = Nothing
    /\ plistName = Nothing

\* create_exe(app_path) with no pyscript, lines 357-360: the launcher is
\* written at Contents/MacOS/<app_name>, the entry point defaults to
\* Resources/bin/<app_name>.
CreateExe ==
    /\ exeName = Nothing
    /\ exeName' = Some(ExeAppName(name))
    /\ pyscript' = Some(<<<<"Resources">>, <<"bin">>, ExeAppName(name)>>)
    /\ UNCHANGED <<name, plistName>>
    /\ UNCHANGED <<pathVars, buildVars, copyVars, mainVars, cleanVars>>

\* create_info_plist(app_path) with no app_name, lines 310-311.
CreateInfoPlist ==
    /\ plistName = Nothing
    /\ plistName' = Some(PlistAppName(name))
    /\ UNCHANGED <<name, exeName, pyscript>>
    /\ UNCHANGED <<pathVars, buildVars, copyVars, mainVars, cleanVars>>

(***************************************************************************)
(* Confirmation prompts.                                                   *)
(***************************************************************************)
ValidAnswers == {"y", "n", ""}

\* get_confirmation, lines 213-219, reading the operator's lines from
\* `inputs`: it asks again until the line is "y", "n" or empty, and returns
\* False for "n" (and for the empty line when the default is no).
\* answer: the returned value; asked: the input() calls made; last: the line
\* that ended the loop.
RECURSIVE AskFrom(_, _, _)
AskFrom(inputs, default_yes, asked) ==
    LET resp == Head(inputs) IN
    IF resp \notin ValidAnswers /\ Len(inputs) > 1
    THEN AskFrom(Tail(inputs), default_yes, asked + 1)
    ELSE [answer |-> ~((resp = "" /\ ~default_yes) \/ resp = "n"),
          asked  |-> asked + 1,
          last   |-> resp]

get_confirmation_default_no(inputs) == AskFrom(inputs, FALSE, 0)

get_confirmation(inputs) == AskFrom(inputs, TRUE, 0)

(***************************************************************************)
(* The bundle directory.                                                   *)
(***************************************************************************)
Prefixes(path) == {SubSeq(path, 1, k) : k \in 1..Len(path)}

\* os.makedirs(app_path/<path>) on the tree `fs` below app_path (Nothing: app_path
\* itself is absent): the missing ancestors and the leaf are created; an
\* existing leaf is FileExistsError.
MakedirsFails(fs, path) == IsSome(fs) /\ path \in Val(fs)
Makedirs(fs, path) == Some((IF IsSome(fs) THEN Val(fs) ELSE {}) \cup Prefixes(path))

SubFolders == <<"MacOS", "Resources", "Frameworks">>
Skeleton == {<<"Contents">>} \cup {<<"Contents", SubFolders[i]>> : i \in 1..3}

\* lines 251-252: the three makedirs calls, in order.
RECURSIVE MakeFolders(_, _)
MakeFolders(fs, i) ==
    IF i > Len(SubFolders) THEN [fs |-> fs, error |-> FALSE]
    ELSE IF MakedirsFails(fs, <<"Contents", SubFolders[i]>>)
         THEN [fs |-> fs, error |-> TRUE]
         ELSE MakeFolders(Makedirs(fs, <<"Contents", SubFolders[i]>>), i + 1)

\* create_app_folder, lines 240-253, on the bundle directory `b` with the
\* operator's lines `inputs`.  The prompt is only evaluated when the bundle
\* exists and confirm is set (`confirm and not get_confirmation(...)`).
create_app_folder_no_rmtree(b, confirm, inputs) ==
    LET asks == IsSome(b) /\ confirm
        conf == get_confirmation(inputs)
    IN  IF asks /\ ~conf.answer
        THEN [fs |-> b, outcome |-> "kept", asked |-> conf.asked,
              last |-> Some(conf.last), error |-> FALSE]
        ELSE [fs |-> Some((IF IsSome(b) THEN Val(b) ELSE {}) \cup Skeleton),
              outcome |-> IF IsSome(b) THEN "overwritten" ELSE "created",
              asked |-> IF asks THEN conf.asked ELSE 0,
              last |-> IF asks THEN Some(conf.last) ELSE Nothing,
              error |-> FALSE]

create_app_folder(b, confirm, inputs) ==
    LET asks == IsSome(b) /\ confirm
        conf == get_confirmation(inputs)
    IN  IF asks /\ ~conf.answer
        THEN [fs |-> b, outcome |-> "kept", asked |-> conf.asked,
              last |-> Some(conf.last), error |-> FALSE]
        ELSE LET made == MakeFolders(Nothing, 1)     \* after shutil.rmtree(app_path)
             IN  [fs |-> made.fs,
                  outcome |-> IF IsSome(b) THEN "overwritten" ELSE "created",
                  asked |-> IF asks THEN conf.asked ELSE 0,
                  last |-> IF asks THEN Some(conf.last) ELSE Nothing,
                  error |-> made.error]

(***************************************************************************)
(* The runtime installation, conda_run and create_env.                     *)
(***************************************************************************)
EnvPath(base, n) == base \o <<"envs", n>>
BinOf(dir) == dir \o <<"bin">>
SitePackagesOf(dir, py) == dir \o <<"lib", py, "site-packages">>

\* glob.glob(<dir>/lib/python*/site-packages): the site-packages directories
\* that exist.  The base installation has one when it exists; a
\* sub-environment has the one of its interpreter.
GlobBaseSite(base, exists) ==
    IF exists THEN <<SitePackagesOf(base, "python3")>> ELSE <<>>
GlobEnvSite(dir, e) ==
    IF IsSome(e) THEN <<SitePackagesOf(dir, Val(e).py)>> ELSE <<>>

\* f"{...}:{environ.get('PATH')}": an unset PATH is formatted as "None".
Formatted(v) == IF IsSome(v) THEN Val(v) ELSE <<<<"None">>>>

\* conda_run, lines 79-88: the environment of the child process.  PATH and
\* PYTHONPATH are sequences of entries (the string joins them with ":").
conda_run(args, env_name, base, isdir, e) ==
    LET path0 == <<BinOf(base)>> \o Formatted(inhPATH)
        py0   == GlobBaseSite(base, isdir)
        env_dir == EnvPath(base, env_name)
    IN  IF env_name # "base"
        THEN [args |-> args, env_name |-> env_name,
              PATH |-> <<BinOf(env_dir)>> \o path0,
              PYTHONPATH |-> GlobEnvSite(env_dir, e)]
        ELSE [args |-> args, env_name |-> env_name,
              PATH |-> path0,
              PYTHONPATH |-> py0]

CondaCreateArgs(n) ==
    <<"conda", "create", "-n", n, "-c", "conda-forge", "-y", "python=3.8">>
PipArgs(pkgs) == <<"pip", "install", "--ignore-installed">> \o pkgs

\* lines 147-149: the packages to install.
PipPackages(n, pkgs) == IF pkgs = <<>> THEN <<n>> ELSE pkgs

Range(q) == {q[i] : i \in DOMAIN q}

\* ---- bounds and input sets of Spec
MaxRuns == 2
MaxRetries == 1
MaxPkgs == 2

AppNames == {"demo", "base"}
PipLists == {<<>>} \cup {[i \in 1..k |-> <<"pkgA", "pkgB", "pkgC">>[i]] : k \in 1..MaxPkgs}
InheritedPaths == {Nothing, Some(<<<<"/", "usr", "bin">>>>)}
InheritedPythonPaths == {Nothing, Some(<<<<"/", "opt", "libs">>>>)}
\* What the later steps of main (lines 491-507) may have written below the
\* bundle since it was made.
ExtraPaths == {<<"Contents", "Info.plist">>, <<"Contents", "Resources", "bin">>}
OldEnv == [py |-> "python3.7", pkgs |-> {"oldpkg"}]
NewEnv == [py |-> "python3.8", pkgs |-> {}]

\* The operator's lines at one prompt: up to MaxRetries lines that are no
\* answer, then an answer.
InputSeqs ==
    {[i \in 1..(k + 1) |-> IF i <= k THEN "maybe" ELSE a] :
        k \in 0..MaxRetries, a \in ValidAnswers}

BuildIdle ==
    /\ appName = "" /\ noconfirm = FALSE /\ pip_install = <<>>
    /\ inhPATH = Nothing /\ inhPYTHONPATH = Nothing
    /\ pc = "idle" /\ run = 0
    /\ bundle = Nothing /\ bundleBefore = Nothing /\ appOutcomes = <<>>
    /\ appPrompts = 0 /\ appAnswer = Nothing /\ appRet = Nothing
    /\ condaExists = FALSE /\ envDir = Nothing /\ envBefore = Nothing
    /\ envAfterConfirm = Nothing /\ envDeleted = FALSE /\ envPrompts = 0
    /\ envAnswer = Nothing /\ envRet = Nothing /\ cmds = <<>>

\* The start of main.  What earlier invocations left on disk is part of the
\* initial state: a bundle, a runtime installation, a sub-environment (which
\* lies inside the runtime installation).
InitBuild ==
    /\ appName \in AppNames
    /\ noconfirm \in BOOLEAN
    /\ pip_install \in PipLists
    /\ inhPATH \in InheritedPaths
    /\ inhPYTHONPATH \in InheritedPythonPaths
    /\ pc = "create_app_folder" /\ run = 1
    /\ bundle \in {Nothing, Some(Skeleton), Some(Skeleton \cup ExtraPaths)}
    /\ condaExists \in BOOLEAN
    /\ envDir \in {Nothing, Some(OldEnv)}
    /\ IsSome(envDir) => condaExists
    /\ buildpath = <<"build">> /\ cwd = <<"/", "work">>
    /\ home = <<"/", "Users", "me">> /\ condaBase = Nothing
    /\ bundleBefore = Nothing /\ appOutcomes = <<>>
    /\ appPrompts = 0 /\ appAnswer = Nothing /\ appRet = Nothing
    /\ envBefore = Nothing /\ envAfterConfirm = Nothing /\ envDeleted = FALSE
    /\ envPrompts = 0 /\ envAnswer = Nothing /\ envRet = Nothing /\ cmds = <<>>

AppPath(n) == <<"dist", n, ".app">>

\* main, line 485: create_app_folder(name, distpath, not noconfirm).
CreateAppFolder ==
    /\ pc = "create_app_folder"
    /\ \E inputs \in InputSeqs :
         LET r == create_app_folder(bundle, ~noconfirm, inputs) IN
         /\ bundle' = r.fs
         /\ bundleBefore' = bundle
         /\ appOutcomes' = Append(appOutcomes, r.outcome)
         /\ appPrompts' = r.asked
         /\ appAnswer' = r.last
         /\ appRet' = IF r.error THEN Nothing ELSE Some(AppPath(appName))
         /\ pc' = IF r.error THEN "crashed" ELSE "install_conda"
    /\ UNCHANGED <<argVars, run, envVars, pathVars, nameVars, copyVars, mainVars, cleanVars>>

\* main, lines 487-488: install_conda(buildpath), lines 49-61.  CONDA_BASE is
\* set; an existing installation is reused, else the installer is run, after
\* which the directory exists or (the installer failed) does not.
InstallConda ==
    /\ pc = "install_conda"
    /\ condaBase' = Some(safe_conda_base(buildpath, cwd, home))
    /\ IF condaExists
       THEN condaExists' = TRUE
       ELSE condaExists' \in BOOLEAN
    /\ pc' = "create_env"
    /\ UNCHANGED <<buildpath, cwd, home>>
    /\ UNCHANGED <<argVars, run, appVars, nameVars, copyVars, mainVars, cleanVars>>
    /\ UNCHANGED <<envDir, envBefore, envAfterConfirm, envDeleted,
                   envPrompts, envAnswer, envRet, cmds>>

\* main, line 490: create_env(conda_base, name, py, pip_install, not
\* noconfirm), lines 122-159.  `createOK` and `pipOK` are the outcomes of the
\* two external commands; conda_run asserts that CONDA_BASE is a directory
\* before it runs anything.
CreateEnv ==
    /\ pc = "create_env"
    /\ \E inputs \in InputSeqs, createOK \in BOOLEAN, pipOK \in BOOLEAN :
         LET base   == Val(condaBase)
             env_dir == EnvPath(base, appName)
             asks   == IsSome(envDir) /\ ~noconfirm
             conf   == get_confirmation(inputs)
             reuse  == asks /\ ~conf.answer
             \* the else branch, lines 130-145
             created == IF createOK THEN Some(NewEnv) ELSE Nothing
             create_cmd == conda_run(CondaCreateArgs(appName), "base",
                                     base, condaExists, Nothing)
             env1   == IF reuse THEN envDir
                       ELSE IF condaExists THEN created ELSE Nothing
             cmds1  == IF reuse \/ ~condaExists THEN cmds
                       ELSE Append(cmds, create_cmd)
             \* lines 147-153
             pkgs   == PipPackages(appName, pip_install)
             pip_cmd == conda_run(PipArgs(pkgs), appName,
                                  base, condaExists, env1)
             installs == pipOK /\ IsSome(env1) /\ appName # "base"
             env2   == IF installs
                       THEN Some([Val(env1) EXCEPT !.pkgs = @ \cup Range(pkgs)])
                       ELSE env1
         IN  /\ envBefore' = envDir
             /\ envPrompts' = IF asks THEN conf.asked ELSE 0
             /\ envAnswer' = IF asks THEN Some(conf.last) ELSE Nothing
             /\ envDeleted' = (IsSome(envDir) /\ ~reuse)
             /\ envAfterConfirm' = env1
             /\ IF condaExists
                THEN /\ envDir' = env2
                     /\ cmds' = Append(cmds1, pip_cmd)
                     /\ envRet' = Some(env_dir)
                     /\ pc' = "rest"
                ELSE /\ envDir' = env1
                     /\ cmds' = cmds1
                     /\ envRet' = Nothing
                     /\ pc' = "crashed"
    /\ UNCHANGED <<argVars, run, appVars, condaExists, pathVars, nameVars, copyVars, mainVars, cleanVars>>

\* main, lines 491-508, and the next invocation of the tool with the same
\* arguments.  The later steps write below the bundle (bundle_conda_env,
\* copy_icon, create_info_plist, create_exe), and make_dmg may move the
\* bundle away.  The new process starts with what the old one left on disk.
RestOfRun ==
    /\ pc = "rest"
    /\ run < MaxRuns
    /\ \/ \E extra \in SUBSET ExtraPaths : bundle' = Some(Val(bundle) \cup extra)
       \/ bundle' = Nothing
    /\ run' = run + 1
    /\ pc' = "create_app_folder"
    /\ condaBase' = Nothing
    /\ bundleBefore' = Nothing /\ appPrompts' = 0
    /\ appAnswer' = Nothing /\ appRet' = Nothing
    /\ envBefore' = Nothing /\ envAfterConfirm' = Nothing
    /\ envDeleted' = FALSE /\ envPrompts' = 0
    /\ envAnswer' = Nothing /\ envRet' = Nothing /\ cmds' = <<>>
    /\ UNCHANGED <<argVars, appOutcomes, condaExists, envDir>>
    /\ UNCHANGED <<buildpath, cwd, home, nameVars, copyVars, mainVars, cleanVars>>

(***************************************************************************)
(* bundle_conda_env.  A directory tree is modelled two levels deep: a      *)
(* top-level entry has a kind and, when it is a directory (or a link to    *)
(* one), children, each of a kind.  Kinds: "none" (no entry), "file",      *)
(* "dir", "linkfile" and "linkdir" (a symbolic link that resolves to a      *)
(* file / a directory) and "broken" (a dangling symbolic link).  Names do  *)
(* not start with a dot.                                                   *)
(***************************************************************************)
TopNames == {"bin", "lib"}
ChildNames == {"qt", "py"}
Kinds == {"none", "file", "dir", "linkfile", "linkdir", "broken"}

NoChildren == [c \in ChildNames |-> "none"]
Absent == [kind |-> "none", ch |-> NoChildren]
EmptyTree == [t \in TopNames |-> Absent]

\* os.path.exists / isdir / isfile follow symbolic links.
PathExists(kind) == kind \in {"file", "dir", "linkfile", "linkdir"}
PathIsDir(kind) == kind \in {"dir", "linkdir"}
PathIsFile(kind) == kind \in {"file", "linkfile"}

\* shutil.rmtree raises on anything but a real directory: NotADirectoryError
\* on a file, OSError("Cannot call rmtree on a symbolic link") on a link.
RmtreeRaises(kind) == kind # "dir"

\* fnmatch of a name against one pattern component; "*" matches any run of
\* characters.
RECURSIVE Fnmatch(_, _)
Fnmatch(n, pat) ==
    IF pat = <<>> THEN n = <<>>
    ELSE IF Head(pat) = "*"
         THEN Fnmatch(n, Tail(pat)) \/ (n # <<>> /\ Fnmatch(Tail(n), pat))
         ELSE n # <<>> /\ Head(n) = Head(pat) /\ Fnmatch(Tail(n), Tail(pat))

Match(n, pat) == Fnmatch(Text(n), Text(pat))

\* glob.glob(Resources/<pattern>) on `tree`: the entries (lexists) whose path
\* matches, component by component; a two-component pattern looks below the
\* top-level directories that match its first component.
Glob(tree, pat) ==
    IF Len(pat) = 1
    THEN {<<t>> : t \in {x \in TopNames : tree[x].kind # "none" /\ Match(x, pat[1])}}
    ELSE {<<p[1], p[2]>> : p \in
            {q \in TopNames \X ChildNames :
                /\ PathIsDir(tree[q[1]].kind) /\ Match(q[1], pat[1])
                /\ tree[q[1]].ch[q[2]] # "none" /\ Match(q[2], pat[2])}}

KindAt(tree, path) ==
    IF Len(path) = 1 THEN tree[path[1]].kind ELSE tree[path[1]].ch[path[2]]

\* lines 198-208, for one matched item of kind k: a directory is removed with
\* rmtree, which raises OSError on a link to a directory (caught, line 207:
\* the link stays); a file or a link to a file is removed; a dangling link is
\* neither and is only logged.  TRUE when the item is gone afterwards.
ExcludeRemoves(k) ==
    IF PathIsDir(k) THEN ~RmtreeRaises(k)
    ELSE PathIsFile(k)

\* lines 197-208 for one pattern: every item glob returned is handled; the
\* items of one pattern lie at one depth, so their order does not matter.
ExcludeOne(tree, pat) ==
    LET gone == {p \in Glob(tree, pat) : ExcludeRemoves(KindAt(tree, p))} IN
    [t \in TopNames |->
        IF <<t>> \in gone THEN Absent
        ELSE [tree[t] EXCEPT !.ch =
                [c \in ChildNames |-> IF <<t, c>> \in gone THEN "none" ELSE @[c]]]]

\* lines 195-208: the patterns in order.
RECURSIVE ExcludePass(_, _)
ExcludePass(tree, pats) ==
    IF pats = <<>> THEN tree
    ELSE ExcludePass(ExcludeOne(tree, Head(pats)), Tail(pats))

\* lines 183-193 for one item: src is the entry env_dir/item, dst the entry
\* Resources/item.  An existing dst is removed with rmtree (which raises on
\* a file or a link); a directory (or link to one) is copied with copytree,
\* symlinks=True keeping the links below it as links, and copytree raises when
\* dst is still there; anything else is copied with shutil.copy, which
\* follows a link to a file and raises when there is no file.
CopyItem(src, dst) ==
    IF PathExists(dst.kind) /\ RmtreeRaises(dst.kind)
    THEN [node |-> dst, error |-> TRUE]
    ELSE LET dst1 == IF PathExists(dst.kind) THEN Absent ELSE dst IN
         IF PathIsDir(src.kind)
         THEN IF dst1.kind # "none"
              THEN [node |-> dst1, error |-> TRUE]
              ELSE [node |-> [kind |-> "dir", ch |-> src.ch], error |-> FALSE]
         ELSE IF PathIsFile(src.kind)
              THEN [node |-> [kind |-> "file", ch |-> NoChildren], error |-> FALSE]
              ELSE [node |-> dst1, error |-> TRUE]

\* lines 182-193: the items in order; an exception ends the function.
RECURSIVE IncludePass(_, _, _)
IncludePass(tree, src, items) ==
    IF items = <<>> THEN [tree |-> tree, error |-> FALSE]
    ELSE LET item == Head(items)
             r == CopyItem(src[item], tree[item])
         IN  IF r.error
             THEN [tree |-> [tree EXCEPT ![item] = r.node], error |-> TRUE]
             ELSE IncludePass([tree EXCEPT ![item] = r.node], src, Tail(items))

\* os.listdir(env_dir), in some fixed order.
ListDir(src) ==
    (IF src["bin"].kind # "none" THEN <<"bin">> ELSE <<>>)
    \o (IF src["lib"].kind # "none" THEN <<"lib">> ELSE <<>>)

\* ---- bounds and input sets of SpecCopy
MaxExclude == 1
MaxCopyRuns == 2

Patterns == {<<"bin">>, <<"*">>, <<"zzz">>, <<"bin", "*">>, <<"bin", "q*">>,
             <<"*", "py">>}
ExcludeLists == {<<>>} \cup SeqsUpTo(Patterns, MaxExclude)
IncludeLists == {<<>>, <<"bin">>, <<"lib">>, <<"bin", "lib">>}
\* The sub-environment: bin is missing or a directory with any children, lib
\* is any kind of entry without children.
EnvTrees ==
    {[t \in TopNames |-> IF t = "bin" THEN b ELSE [kind |-> l, ch |-> NoChildren]] :
        b \in {Absent} \cup {[kind |-> "dir", ch |-> c] : c \in [ChildNames -> Kinds]},
        l \in Kinds}

CopyIdle ==
    /\ env_tree = EmptyTree /\ resources = EmptyTree /\ copied = EmptyTree
    /\ include = <<>> /\ exclude = <<>>
    /\ copyPc = "idle" /\ copyRuns = 0

\* main before line 492: the bundle's Resources directory is as
\* create_app_folder made it, empty.
InitCopy ==
    /\ env_tree \in EnvTrees
    /\ include \in IncludeLists
    /\ exclude \in ExcludeLists
    /\ resources = EmptyTree /\ copied = EmptyTree
    /\ copyPc = "ready" /\ copyRuns = 0

\* bundle_conda_env(env_dir, app_path, include, exclude), lines 179-208; a
\* later invocation of the tool that keeps the bundle calls it again on the
\* same Resources directory.
BundleCondaEnv ==
    /\ copyPc = "ready"
    /\ copyRuns < MaxCopyRuns
    /\ LET items == IF include = <<>> THEN ListDir(env_tree) ELSE include
           inc == IncludePass(resources, env_tree, items)
       IN  /\ copied' = inc.tree
           /\ IF inc.error
              THEN /\ resources' = inc.tree
                   /\ copyPc' = "crashed"
                   /\ copyRuns' = copyRuns
              ELSE /\ resources' = ExcludePass(inc.tree, exclude)
                   /\ copyPc' = "ready"
                   /\ copyRuns' = copyRuns + 1
    /\ UNCHANGED <<env_tree, include, exclude>>
    /\ UNCHANGED <<pathVars, nameVars, buildVars, mainVars, cleanVars>>

(***************************************************************************)
(* sign_app, make_dmg and the end of main.  The distribution directory     *)
(* holds the bundle <name>.app, the staging directory dmg (with or without *)
(* the Applications link and a bundle inside) and the archive <name>.dmg.  *)
(***************************************************************************)
NoStaging == Nothing
StagingOf(link, app) == Some([apps |-> link, app |-> app])

\* sign_app, lines 420-429, with codesign's exit status rc: check_call raises
\* CalledProcessError on a nonzero status, which line 428 catches.
\* raised: whether an exception leaves the function.
sign_app_uncaught(cert, rc) ==
    [logs |-> (IF cert = "-" THEN {"No code certificate supplied"} ELSE {})
              \cup (IF rc = 0 THEN {"Successfully signed"} ELSE {}),
     raised |-> rc # 0]

sign_app(cert, rc) ==
    [logs |-> (IF cert = "-" THEN {"No code certificate supplied"} ELSE {})
              \cup (IF rc = 0 THEN {"Successfully signed"}
                    ELSE {"App code signing failed"}),
     raised |-> FALSE]

\* make_dmg, lines 396-416, on the distribution directory, with hdiutil's exit
\* status rc.  makedirs(exist_ok=True) and the Applications link come first.
\* keep_app: shutil.copytree(app_path, dmg_dir) raises FileExistsError, since
\* dmg_dir exists by then.  Otherwise shutil.move(app_path, dmg_dir) moves the
\* bundle to dmg_dir/<name>.app and raises shutil.Error when that exists.
\* ret: the returned string ("" on failure); ran: whether hdiutil was run.
make_dmg_keeps_staging(has_app, stage, has_dmg, keep_app, rc) ==
    LET app_inside == IsSome(stage) /\ Val(stage).app
        linked == StagingOf(TRUE, app_inside)
    IN  IF keep_app \/ app_inside
        THEN [bundle |-> has_app, staging |-> linked, dmg |-> has_dmg,
              ret |-> Nothing, ran |-> FALSE, raised |-> TRUE, logs |-> {}]
        ELSE [bundle |-> FALSE, staging |-> StagingOf(TRUE, TRUE),
              dmg |-> (has_dmg \/ rc = 0),
              ret |-> IF rc = 0 THEN Some("dmg_file") ELSE Some(""),
              ran |-> TRUE, raised |-> FALSE,
              logs |-> {"Creating DMG archive..."}
                       \cup (IF rc = 0 THEN {"DMG successfully created"}
                             ELSE {"DMG creation failed"})]

make_dmg_copies_app(has_app, stage, has_dmg, keep_app, rc) ==
    LET app_inside == IsSome(stage) /\ Val(stage).app
        linked == StagingOf(TRUE, app_inside)
    IN  IF keep_app \/ app_inside
        THEN [bundle |-> has_app, staging |-> linked, dmg |-> has_dmg,
              ret |-> Nothing, ran |-> FALSE, raised |-> TRUE, logs |-> {}]
        ELSE IF rc = 0
        THEN [bundle |-> has_app, staging |-> NoStaging, dmg |-> TRUE,
              ret |-> Some("dmg_file"), ran |-> TRUE, raised |-> FALSE,
              logs |-> {"Creating DMG archive...", "DMG successfully created"}]
        ELSE [bundle |-> has_app, staging |-> StagingOf(TRUE, TRUE), dmg |-> has_dmg,
              ret |-> Some(""), ran |-> TRUE, raised |-> FALSE,
              logs |-> {"Creating DMG archive...", "DMG creation failed"}]

make_dmg(has_app, stage, has_dmg, keep_app, rc) ==
    LET app_inside == IsSome(stage) /\ Val(stage).app
        linked == StagingOf(TRUE, app_inside)
    IN  IF keep_app \/ app_inside
        THEN [bundle |-> has_app, staging |-> linked, dmg |-> has_dmg,
              ret |-> Nothing, ran |-> FALSE, raised |-> TRUE, logs |-> {}]
        ELSE IF rc = 0
        THEN [bundle |-> FALSE, staging |-> NoStaging, dmg |-> TRUE,
              ret |-> Some("dmg_file"), ran |-> TRUE, raised |-> FALSE,
              logs |-> {"Creating DMG archive...", "DMG successfully created"}]
        ELSE [bundle |-> FALSE, staging |-> StagingOf(TRUE, TRUE), dmg |-> has_dmg,
              ret |-> Some(""), ran |-> TRUE, raised |-> FALSE,
              logs |-> {"Creating DMG archive...", "DMG creation failed"}]

\* ---- input sets of SpecMain
CertNames == {"-", "", "Developer ID"}
ExitStatuses == {0, 1}
Stagings == {NoStaging, StagingOf(TRUE, FALSE), StagingOf(TRUE, TRUE)}

MainIdle ==
    /\ mode = "idle" /\ cert_name = "-" /\ nodmg = FALSE /\ mpc = "idle"
    /\ distBundle = FALSE /\ staging = NoStaging /\ dmgFile = FALSE
    /\ staleApp = FALSE /\ signRC = Nothing /\ hdiutilRC = Nothing
    /\ dmgCalled = FALSE /\ dmgRet = Nothing /\ logs = {} /\ exitCode = Nothing

\* The start of the process.  Earlier invocations may have left a bundle, a
\* staging directory (with the link only, after a failed --make-dmg, or with
\* a bundle too, after a failed hdiutil) and an archive.  --make-dmg is given
\* the path of a prebuilt bundle.
InitMain ==
    /\ mode \in {"main", "make_dmg"}
    /\ cert_name \in CertNames
    /\ nodmg \in BOOLEAN
    /\ distBundle \in BOOLEAN
    /\ mode = "make_dmg" => distBundle
    /\ staging \in Stagings
    /\ dmgFile \in BOOLEAN
    /\ staleApp = (IsSome(staging) /\ Val(staging).app)
    /\ mpc = "start"
    /\ signRC = Nothing /\ hdiutilRC = Nothing /\ dmgCalled = FALSE
    /\ dmgRet = Nothing /\ logs = {} /\ exitCode = Nothing

\* main, lines 481-501: the steps up to create_exe return; the bundle exists
\* at app_path afterwards (create_app_folder, line 485).
MainBuild ==
    /\ mode = "main" /\ mpc = "start"
    /\ distBundle' = TRUE
    /\ logs' = logs \cup {"Creating app"}
    /\ mpc' = "sign"
    /\ UNCHANGED <<mode, cert_name, nodmg, staging, dmgFile, staleApp, signRC,
                   hdiutilRC, dmgCalled, dmgRet, exitCode>>
    /\ UNCHANGED <<pathVars, nameVars, buildVars, copyVars, cleanVars>>

\* main, lines 502-503: sign_app(app_path, cert_name) unless cert_name is
\* empty.  An exception that leaves sign_app ends the process.
MainSign ==
    /\ mode = "main" /\ mpc = "sign"
    /\ IF cert_name = ""
       THEN /\ mpc' = "dmg"
            /\ UNCHANGED <<signRC, logs, exitCode>>
       ELSE \E rc \in ExitStatuses :
              LET r == sign_app(cert_name, rc) IN
              /\ signRC' = Some(rc)
              /\ logs' = logs \cup r.logs
              /\ mpc' = IF r.raised THEN "crashed" ELSE "dmg"
              /\ exitCode' = IF r.raised THEN Some(1) ELSE exitCode
    /\ UNCHANGED <<mode, cert_name, nodmg, distBundle, staging, dmgFile, staleApp,
                   hdiutilRC, dmgCalled, dmgRet>>
    /\ UNCHANGED <<pathVars, nameVars, buildVars, copyVars, cleanVars>>

\* main, lines 506-507: make_dmg(app_path) unless nodmg.
MainMakeDmg ==
    /\ mode = "main" /\ mpc = "dmg"
    /\ IF nodmg
       THEN /\ mpc' = "finish"
            /\ UNCHANGED <<distBundle, staging, dmgFile, hdiutilRC, dmgCalled,
                           dmgRet, logs, exitCode>>
       ELSE \E rc \in ExitStatuses :
              LET r == make_dmg(distBundle, staging, dmgFile, FALSE, rc) IN
              /\ distBundle' = r.bundle
              /\ staging' = r.staging
              /\ dmgFile' = r.dmg
              /\ hdiutilRC' = IF r.ran THEN Some(rc) ELSE Nothing
              /\ dmgCalled' = TRUE
              /\ dmgRet' = r.ret
              /\ logs' = logs \cup r.logs
              /\ mpc' = IF r.raised THEN "crashed" ELSE "finish"
              /\ exitCode' = IF r.raised THEN Some(1) ELSE exitCode
    /\ UNCHANGED <<mode, cert_name, nodmg, staleApp, signRC>>
    /\ UNCHANGED <<pathVars, nameVars, buildVars, copyVars, cleanVars>>

\* main, line 508, and the normal end of the process.
MainFinish ==
    /\ mode = "main" /\ mpc = "finish"
    /\ logs' = logs \cup {"App created"}
    /\ exitCode' = Some(0)
    /\ mpc' = "done"
    /\ UNCHANGED <<mode, cert_name, nodmg, distBundle, staging, dmgFile, staleApp,
                   signRC, hdiutilRC, dmgCalled, dmgRet>>
    /\ UNCHANGED <<pathVars, nameVars, buildVars, copyVars, cleanVars>>

\* The --make-dmg action, lines 524-528: make_dmg(values[0], keep_app=True),
\* then sys.exit().
MakeDMG ==
    /\ mode = "make_dmg" /\ mpc = "start"
    /\ \E rc \in ExitStatuses :
         LET r == make_dmg(distBundle, staging, dmgFile, TRUE, rc) IN
         /\ distBundle' = r.bundle
         /\ staging' = r.staging
         /\ dmgFile' = r.dmg
         /\ hdiutilRC' = IF r.ran THEN Some(rc) ELSE Nothing
         /\ dmgCalled' = TRUE
         /\ dmgRet' = r.ret
         /\ logs' = logs \cup r.logs
         /\ mpc' = IF r.raised THEN "crashed" ELSE "done"
         /\ exitCode' = IF r.raised THEN Some(1) ELSE Some(0)
    /\ UNCHANGED <<mode, cert_name, nodmg, staleApp, signRC>>
    /\ UNCHANGED <<pathVars, nameVars, buildVars, copyVars, cleanVars>>

(***************************************************************************)
(* The argument parser and the --clean action.  parse_args first gives     *)
(* every option its default, then reads the command line from left to      *)
(* right and runs each option's action as it meets the option: a store     *)
(* action writes the namespace, CleanAction reads the namespace as it is   *)
(* at that point.                                                          *)
(***************************************************************************)
Arg(o, v) == [opt |-> o, val |-> v]

\* The defaults of --buildpath and --distpath, lines 554-567.
DefaultBuildpath == <<"build">>
DefaultDistpath == <<"dist">>

\* ---- bounds and input sets of SpecClean
MaxArgs == 4
CliBuildPaths == {<<"my build">>, <<"/", "Users", "build">>}
CliDistPaths == {<<"out">>, <<"/", "Users", "dist">>}
Args == {Arg("--clean", <<>>), Arg("name", <<>>)}
            \cup {Arg("--buildpath", v) : v \in CliBuildPaths}
            \cup {Arg("--distpath", v) : v \in CliDistPaths}
\* Command lines that give no option twice.
CommandLines ==
    {<<>>} \cup {s \in SeqsUpTo(Args, MaxArgs) :
                    \A i, j \in DOMAIN s : s[i].opt = s[j].opt => i = j}

IsPrefixPath(p, q) == Len(p) <= Len(q) /\ SubSeq(q, 1, Len(p)) = p

\* shutil.rmtree(p, ignore_errors=True) run in working directory d: the
\* directory and everything below it is gone.
Rmtree(ds, p, d) == {q \in ds : ~IsPrefixPath(AbsPath(p, d), q)}

\* The directories an earlier build with build path bp and distribution path
\* dp has made.
BuiltDirs(bp, dp, d, h) == {AbsPath(bp, d), safe_conda_base(bp, d, h), AbsPath(dp, d)}
AllDirs(d, h) ==
    UNION {BuiltDirs(bp, dp, d, h) : bp \in CliBuildPaths \cup {DefaultBuildpath},
                                     dp \in CliDistPaths \cup {DefaultDistpath}}

CleanIdle ==
    /\ argv = <<>> /\ argi = 0
    /\ nsBuildpath = <<>> /\ nsDistpath = <<>> /\ nsName = FALSE
    /\ dirs = {} /\ cliPc = "idle"

\* The process starts parse_args, lines 646 and 554-567: the namespace holds
\* the defaults.  Earlier builds have left their directories.
InitClean ==
    /\ cwd \in Cwds
    /\ home \in Homes
    /\ buildpath = <<>>
    /\ condaBase = Nothing
    /\ argv \in CommandLines
    /\ argi = 1
    /\ nsBuildpath = DefaultBuildpath
    /\ nsDistpath = DefaultDistpath
    /\ nsName = FALSE
    /\ dirs = AllDirs(cwd, home)
    /\ cliPc = "parse"

\* parse_args meets --buildpath, --distpath or the positional name: the
\* store action writes the value into the namespace.
StoreArg ==
    /\ cliPc = "parse" /\ argi <= Len(argv)
    /\ argv[argi].opt \in {"--buildpath", "--distpath", "name"}
    /\ nsBuildpath' = IF argv[argi].opt = "--buildpath" THEN argv[argi].val
                      ELSE nsBuildpath
    /\ nsDistpath' = IF argv[argi].opt = "--distpath" THEN argv[argi].val
                     ELSE nsDistpath
    /\ nsName' = (nsName \/ argv[argi].opt = "name")
    /\ argi' = argi + 1
    /\ UNCHANGED <<argv, dirs, cliPc>>
    /\ UNCHANGED <<pathVars, nameVars, buildVars, copyVars, mainVars>>

\* parse_args meets --clean: CleanAction.__call__, lines 514-522, on the
\* namespace as filled so far; sys.exit() ends the process.
CleanAction ==
    /\ cliPc = "parse" /\ argi <= Len(argv)
    /\ argv[argi].opt = "--clean"
    /\ LET conda_base == safe_conda_base(nsBuildpath, cwd, home) IN
       /\ condaBase' = Some(conda_base)
       /\ dirs' = Rmtree(Rmtree(Rmtree(dirs, conda_base, cwd), nsDistpath, cwd),
                       nsBuildpath, cwd)
    /\ cliPc' = "cleaned"
    /\ UNCHANGED <<argv, argi, nsBuildpath, nsDistpath, nsName>>
    /\ UNCHANGED <<buildpath, cwd, home, nameVars, buildVars, copyVars, mainVars>>

\* The command line is read through, lines 646-654: without the required
\* name parse_args ends the process with a usage error, else main runs.
ParseArgsEnd ==
    /\ cliPc = "parse" /\ argi > Len(argv)
    /\ cliPc' = IF nsName THEN "pipeline" ELSE "usage"
    /\ UNCHANGED <<argv, argi, nsBuildpath, nsDistpath, nsName, dirs>>
    /\ UNCHANGED <<pathVars, nameVars, buildVars, copyVars, mainVars>>

vars == <<pathVars, nameVars, buildVars, copyVars, mainVars, cleanVars>>

\* ---- the specifications
InitSpecPath == InitPath /\ NameIdle /\ BuildIdle /\ CopyIdle /\ MainIdle /\ CleanIdle
NextPath == SafeCondaBase
SpecPath == InitSpecPath /\ [][NextPath]_vars

InitSpecName == InitName /\ PathIdle /\ BuildIdle /\ CopyIdle /\ MainIdle /\ CleanIdle
NextName == CreateExe \/ CreateInfoPlist
SpecName == InitSpecName /\ [][NextName]_vars

Init == InitBuild /\ NameIdle /\ CopyIdle /\ MainIdle /\ CleanIdle
Next == CreateAppFolder \/ InstallConda \/ CreateEnv \/ RestOfRun
Spec == Init /\ [][Next]_vars

InitSpecCopy == InitCopy /\ PathIdle /\ NameIdle /\ BuildIdle /\ MainIdle /\ CleanIdle
NextCopy == BundleCondaEnv
SpecCopy == InitSpecCopy /\ [][NextCopy]_vars

InitSpecMain == InitMain /\ PathIdle /\ NameIdle /\ BuildIdle /\ CopyIdle /\ CleanIdle
NextMain == MainBuild \/ MainSign \/ MainMakeDmg \/ MainFinish \/ MakeDMG
SpecMain == InitSpecMain /\ [][NextMain]_vars

InitSpecClean == InitClean /\ NameIdle /\ BuildIdle /\ CopyIdle /\ MainIdle
NextClean == StoreArg \/ CleanAction \/ ParseArgsEnd
SpecClean == InitSpecClean /\ [][NextClean]_vars

Last(q) == q[Len(q)]
IsSuffixOf(p, q) == Len(p) <= Len(q) /\ SubSeq(q, Len(q) - Len(p) + 1, Len(q)) = p

\* C1: whenever create_app_folder returns after creating or overwriting (the
\* overwrite confirmed by no-confirm or by the operator's yes), whatever was
\* below the bundle before, the bundle directory holds exactly Contents/MacOS,
\* Contents/Resources and Contents/Frameworks, all empty; in particular after
\* a second invocation that follows a first one and the content added since.
C1_OverwriteLeavesSkeleton ==
    (pc = "install_conda" /\ Last(appOutcomes) # "kept") =>
        /\ IsSome(bundle)
        /\ Val(bundle) = Skeleton

\* C1's case: the second invocation overwrote a bundle that the first
\* invocation had built and that held added content.
C1_Witness ==
    /\ pc = "install_conda" /\ run = 2
    /\ appOutcomes[1] # "kept" /\ appOutcomes[2] = "overwritten"
    /\ Val(bundleBefore) \ Skeleton # {}

\* The overwrite was confirmed: no-confirm is set, or the operator's answer
\* was "y" or the empty line.
Confirmed(answer) == noconfirm \/ (IsSome(answer) /\ Val(answer) \in {"y", ""})

C9_ChildEnvAsClaimed ==
    \A i \in DOMAIN cmds :
        LET c == cmds[i]
            target == IF c.env_name # "base"
                      THEN EnvPath(Val(condaBase), c.env_name)
                      ELSE Val(condaBase)
        IN  /\ Head(c.PATH) = BinOf(target)
            /\ IsSome(inhPATH) => IsSuffixOf(Val(inhPATH), c.PATH)
            /\ IsSome(inhPYTHONPATH) => IsSuffixOf(Val(inhPYTHONPATH), c.PYTHONPATH)

\* C10 (as claimed): when create_env returns, exactly one pip install command
\* was run, inside the sub-environment named after the application (that
\* environment's bin directory leads its PATH), with --ignore-installed and
\* exactly the explicit package list, or the application name when the list
\* is empty; and the returned path is <runtime base>/envs/<name>.
C10_PipInstallAsClaimed ==
    pc = "rest" =>
        LET pips == {i \in DOMAIN cmds : cmds[i].args[1] = "pip"} IN
        /\ Cardinality(pips) = 1
        /\ \A i \in pips :
              /\ cmds[i].args = <<"pip", "install", "--ignore-installed">>
                                \o (IF pip_install # <<>> THEN pip_install
                                    ELSE <<appName>>)
              /\ Head(cmds[i].PATH) = BinOf(EnvPath(Val(condaBase), appName))
        /\ envRet = Some(EnvPath(Val(condaBase), appName))

\* The entries of a tree, as paths.
Entries(tree) ==
    {<<t>> : t \in {x \in TopNames : tree[x].kind # "none"}}
    \cup {<<p[1], p[2]>> : p \in {q \in TopNames \X ChildNames :
                                    /\ PathIsDir(tree[q[1]].kind)
                                    /\ tree[q[1]].ch[q[2]] # "none"}}

\* The copied entries an exclude pattern matches, and those below a matched
\* directory.
Excluded(tree, pats) ==
    LET hit == UNION {Glob(tree, pats[i]) : i \in DOMAIN pats} IN
    {p \in Entries(tree) : p \in hit \/ <<p[1]>> \in hit}

\* C3 (as claimed): when bundle_conda_env has returned, no entry of Resources
\* matches any exclude pattern, whatever its kind (file, directory, symbolic
\* link), and every copied entry that no pattern covers is still there,
\* unchanged.
C3_ExcludeAsClaimed ==
    (copyPc = "ready" /\ copyRuns > 0) =>
        /\ \A i \in DOMAIN exclude : Glob(resources, exclude[i]) = {}
        /\ \A p \in Entries(copied) \ Excluded(copied, exclude) :
              /\ p \in Entries(resources)
              /\ KindAt(resources, p) = KindAt(copied, p)

\* C4 (as claimed): safe_conda_base returns the 'conda' subdirectory of the
\* absolute build path when that path contains no space, the home fallback
\* ~/_temp_conda when it contains one, and in every case a path without a
\* space character.
C4_SafePathAsClaimed ==
    IsSome(condaBase) =>
        LET bp == AbsPath(ExpandUser(buildpath, home), cwd) IN
        /\ ~HasSpace(bp) => Val(condaBase) = Join(bp, "conda")
        /\ HasSpace(bp) => Val(condaBase) = AltDir(cwd, home)
        /\ ~HasSpace(Val(condaBase))

\* C5: in main, when codesign has exited nonzero the failure is logged and
\* the run goes on as after a successful signing: make_dmg is called unless
\* nodmg is set, only make_dmg can end the run early, the completion message
\* is logged at the end, and the exit code depends on the archiving alone (1
\* when make_dmg raises on a bundle left in the staging directory, else 0),
\* not on the signing.
C5_SignFailureNotFatal ==
    (mode = "main" /\ IsSome(signRC)) =>
        /\ Val(signRC) # 0 => "App code signing failed" \in logs
        /\ mpc \in {"dmg", "finish", "done", "crashed"}
        /\ mpc = "crashed" => dmgCalled
        /\ mpc \in {"finish", "done"} => (dmgCalled <=> ~nodmg)
        /\ mpc = "done" => "App created" \in logs
        /\ IsSome(exitCode) =>
              Val(exitCode) = (IF ~nodmg /\ staleApp THEN 1 ELSE 0)

\* C5's case: signing failed, the archiver ran and the run ended normally.
C5_Witness ==
    /\ signRC = Some(1) /\ dmgCalled /\ IsSome(hdiutilRC)
    /\ mpc = "done" /\ exitCode = Some(0)

\* C6: when hdiutil has exited with 0 the staging directory is gone and
\* make_dmg returned the archive path; when it has exited nonzero the staging
\* directory is still there with the Applications link and the bundle, make_dmg
\* returned the empty string without raising, and main ends with its
\* completion message and exit code 0.
C6_MakeDmgOutcome ==
    IsSome(hdiutilRC) =>
        /\ Val(hdiutilRC) = 0 =>
              /\ staging = NoStaging
              /\ dmgRet = Some("dmg_file")
        /\ Val(hdiutilRC) # 0 =>
              /\ staging = StagingOf(TRUE, TRUE)
              /\ dmgRet = Some("")
              /\ "DMG creation failed" \in logs
              /\ mpc \in {"finish", "done"}
              /\ mpc = "done" => "App created" \in logs /\ exitCode = Some(0)

\* C6's case: hdiutil failed and main ended.
C6_Witness ==
    /\ hdiutilRC = Some(1) /\ mpc = "done"
    /\ IsSome(staging) /\ ~distBundle

\* C7 (as claimed): make_dmg with keep_app set (--make-dmg) copies the bundle
\* to <staging>/<name>.app next to the Applications link, leaves the original
\* bundle in place and then runs hdiutil; without keep_app the bundle is
\* moved into the staging directory before hdiutil runs.
C7_KeepAppAsClaimed ==
    /\ (mode = "make_dmg" /\ dmgCalled) =>
          /\ distBundle
          /\ IsSome(hdiutilRC)
          /\ Val(hdiutilRC) # 0 => staging = StagingOf(TRUE, TRUE)
    /\ (mode = "main" /\ IsSome(hdiutilRC)) => ~distBundle

\* C8 (as claimed): create_exe and create_info_plist (without a name
\* override) derive, for the bundle of name N, exactly N: the launcher is
\* Contents/MacOS/N, the default entry point Resources/bin/N, and the
\* manifest's name N.
C8_AppNameAsClaimed ==
    /\ IsSome(exeName) =>
          /\ Val(exeName) = name
          /\ Val(pyscript) = <<<<"Resources">>, <<"bin">>, name>>
    /\ IsSome(plistName) => Val(plistName) = name

(***************************************************************************)
(* C11: for every command line that contains --clean, in every order of    *)
(* the flag relative to --buildpath and --distpath, the tool deletes the   *)
(* runtime installation resolved from the command line's build path, the   *)
(* command line's build directory and its distribution directory, then     *)
(* exits without running the main pipeline.                                *)
(***************************************************************************)
HasOpt(o) == \E i \in DOMAIN argv : argv[i].opt = o
OptVal(o, default) ==
    IF HasOpt(o) THEN (CHOOSE a \in {argv[i] : i \in DOMAIN argv} : a.opt = o).val
    ELSE default
CmdBuildpath == OptVal("--buildpath", DefaultBuildpath)
CmdDistpath == OptVal("--distpath", DefaultDistpath)

C11_CleanAsClaimed ==
    /\ (cliPc \in {"pipeline", "usage"}) => ~HasOpt("--clean")
    /\ cliPc = "cleaned" =>
           \A p \in BuiltDirs(CmdBuildpath, CmdDistpath, cwd, home) : p \notin dirs

(***************************************************************************)
(* C12: in the include pass of bundle_conda_env, for every included entry  *)
(* that is a file or a directory in the sub-environment, whatever entry of *)
(* the same name the Resources directory already holds, the old entry is   *)
(* removed and the source copied: the pass ends without an error and the   *)
(* destination entry equals the source entry, and a second run on the same *)
(* bundle gives the same.                                                  *)
(***************************************************************************)
Included == IF include = <<>> THEN ListDir(env_tree) ELSE include

C12_IncludeAsClaimed ==
    (\A i \in DOMAIN Included : env_tree[Included[i]].kind \in {"file", "dir"}) =>
        /\ copyPc # "crashed"
        /\ copyRuns > 0 =>
               \A i \in DOMAIN Included : copied[Included[i]] = env_tree[Included[i]]

(***************************************************************************)
(* C13: whenever make_dmg is run without keep_app, as main runs it, and    *)
(* returns, the bundle is no longer at app_path, whether hdiutil succeeded *)
(* or failed.  After a success the staging directory is gone and the       *)
(* archive is at dmg_file; after a failure the only copy of the bundle is  *)
(* inside the staging directory.  (An archive an earlier run left at       *)
(* dmg_file may still be there after a failure.)                           *)
(***************************************************************************)
C13_MoveLeavesNoBundle ==
    (mode = "main" /\ IsSome(dmgRet)) =>
        /\ ~distBundle
        /\ Val(hdiutilRC) = 0 => (staging = NoStaging /\ dmgFile)
        /\ Val(hdiutilRC) # 0 => staging = StagingOf(TRUE, TRUE)

\* main's make_dmg has returned after a failed hdiutil, and the archive of an
\* earlier run is at dmg_file.
C13_Witness ==
    /\ mode = "main" /\ IsSome(dmgRet) /\ Val(dmgRet) = ""
    /\ Val(hdiutilRC) # 0 /\ ~distBundle /\ dmgFile

\* C13 as stated: after a failure neither the bundle nor the archive is at
\* its expected path in the distribution directory.
C13_AsClaimed ==
    (mode = "main" /\ IsSome(dmgRet)) =>
        /\ ~distBundle
        /\ Val(hdiutilRC) # 0 => (staging = StagingOf(TRUE, TRUE) /\ ~dmgFile)

=============================================================================
